---- MODULE Spec2Model ----
(***************************************************************************)
(* Model of scrobble_import.py: the retry executor (retry_with_backoff),   *)
(* track resolution (find_track), the playcount cache                      *)
(* (get_lastfm_playcount, LASTFM_PLAYCOUNTS), the scrobble emitter         *)
(* (scrobble_once) and the reconciliation loop of main.                    *)
(*                                                                         *)
(* The remote services are the environment: every call the program makes   *)
(* to them is answered by an outcome the actions draw from bounded sets.   *)
(***************************************************************************)
EXTENDS Integers, Sequences, FiniteSets, TLC

VARIABLES
    tracks,             \* main: the list `tracks` (the candidate pool)
    LASTFM_PLAYCOUNTS,  \* the module-level dict, keyed by (artist, title)
    total_scrobbled,    \* main: total_scrobbled
    state,              \* where main's while-loop is: Running, Done, LimitReached, Crashed
    dry_run,            \* main's argument dry_run
    max_scrobbles,      \* main's argument max_scrobbles: <<>> is None, <<m>> is m
    config,             \* the values read from the config module
    tracks0,            \* history: the pool as fetch_all_tracks returned it
    failed,             \* history: some iteration's emission has failed
    steps,              \* history: candidates drawn while none had failed
    last,               \* history: what the latest loop iteration did
    ledger,             \* history: per key, what its lookups and emissions did
    shadow,             \* a second run fed the same draws (PairSpec only)
    call,               \* one call of a helper, its arguments and result (CallSpec only)
    tick                \* history: the parity of the iterations taken (LiveSpec only)

vars == <<tracks, LASTFM_PLAYCOUNTS, total_scrobbled, state, dry_run,
          max_scrobbles, config, tracks0, steps, failed, last, ledger, shadow, call,
          tick>>

(***************************************************************************)
(* Bounds of the model.                                                    *)
(***************************************************************************)
MaxPool == 2        \* records in the initial pool
MaxLocal == 2       \* largest local playcount of a record
MaxRemote == 1      \* largest remote playcount read from the service
MaxPerRun == 1      \* largest configured per-track-per-run cap
MaxLifetime == 2    \* largest configured per-track lifetime cap
MaxRunCap == 1      \* largest run-wide cap (--max)

Keys == {"k1", "k2"}  \* the (artist, title) pairs of the catalog

Min(a, b) == IF a <= b THEN a ELSE b
Max(a, b) == IF a >= b THEN a ELSE b

(***************************************************************************)
(* Exceptions.  An exception is a record: its class, and for an HTTPError  *)
(* the status of its response (0: no response) and the Retry-After header  *)
(* (-1: header absent).                                                    *)
(***************************************************************************)
Exc(cls, status, retry_after) ==
    [cls |-> cls, status |-> status, retry_after |-> retry_after]

NoException == Exc("None", 0, -1)
RetryFailed == Exc("Exception", 0, -1)   \* Exception("Retry failed with no exception")

\* The classes an exception of class cls is an instance of.  HTTPError,
\* ConnectionError and Timeout are the names imported from
\* requests.exceptions, all subclasses of RequestException; WSError and
\* NetworkError are pylast's, plain subclasses of Exception.
Bases(cls) ==
    CASE cls = "HTTPError"        -> {"HTTPError", "RequestException", "Exception"}
      [] cls = "ConnectionError"  -> {"ConnectionError", "RequestException", "Exception"}
      [] cls = "Timeout"          -> {"Timeout", "RequestException", "Exception"}
      [] cls = "RequestException" -> {"RequestException", "Exception"}
      [] cls = "WSError"          -> {"WSError", "Exception"}
      [] cls = "NetworkError"     -> {"NetworkError", "Exception"}
      [] OTHER                    -> {"Exception"}

\* isinstance(e, classes) for a tuple of classes, as an except clause tests it.
IsInstance(e, classes) == Bases(e.cls) \cap classes # {}

\* The outcome of one call: a return value or a raised exception.
Returned(v) == [ok |-> TRUE, value |-> v, exc |-> NoException]
Raised(e) == [ok |-> FALSE, value |-> 0, exc |-> e]

(***************************************************************************)
(* retry_with_backoff.  outcomes[i] is what the i-th invocation of func    *)
(* does.  The result tells what the call returned or raised, how often     *)
(* func was invoked (calls) and the sleeps made, in order.                 *)
(***************************************************************************)
DefaultInitialDelay == 1
DefaultBackoffFactor == 2

RetryResult(o, calls, sleeps) ==
    [ok |-> o.ok, value |-> o.value, exc |-> o.exc, calls |-> calls, sleeps |-> sleeps]

\* int(e.response.headers.get('Retry-After', delay * 2))
RetryAfter(e, delay) == IF e.retry_after >= 0 THEN e.retry_after ELSE delay * 2

\* Mutant of retry_raise: the exception raised is not the one observed.
retry_raise_unrelated(last_exception, calls, sleeps) ==
    RetryResult(Raised(RetryFailed), calls, sleeps)

\* The statement after the for loop.
retry_raise(last_exception, calls, sleeps) ==
    RetryResult(Raised(IF last_exception # NoException THEN last_exception
                       ELSE RetryFailed), calls, sleeps)

RECURSIVE retry_attempt(_, _, _, _, _, _, _)
retry_attempt(outcomes, attempt, max_retries, delay, backoff_factor, last_exception, sleeps) ==
    IF attempt >= max_retries
    THEN retry_raise(last_exception, attempt, sleeps)
    ELSE IF outcomes[attempt + 1].ok
    THEN RetryResult(outcomes[attempt + 1], attempt + 1, sleeps)
    ELSE IF IsInstance(outcomes[attempt + 1].exc,
                       {"RequestException", "ConnectionError", "Timeout", "WSError"})
    THEN IF attempt < max_retries - 1
         THEN retry_attempt(outcomes, attempt + 1, max_retries,
                            delay * backoff_factor, backoff_factor,
                            outcomes[attempt + 1].exc, Append(sleeps, delay))
         ELSE retry_attempt(outcomes, attempt + 1, max_retries, delay,
                            backoff_factor, outcomes[attempt + 1].exc, sleeps)
    ELSE IF IsInstance(outcomes[attempt + 1].exc, {"HTTPError"})
    THEN IF outcomes[attempt + 1].exc.status # 0
            /\ outcomes[attempt + 1].exc.status = 429
         THEN IF attempt < max_retries - 1
              THEN retry_attempt(outcomes, attempt + 1, max_retries, delay,
                                 backoff_factor, last_exception,
                                 Append(sleeps, RetryAfter(outcomes[attempt + 1].exc,
                                                           delay)))
              ELSE retry_raise(outcomes[attempt + 1].exc, attempt + 1,
                               Append(sleeps, RetryAfter(outcomes[attempt + 1].exc,
                                                         delay)))
         ELSE IF outcomes[attempt + 1].exc.status # 0
                 /\ 500 <= outcomes[attempt + 1].exc.status
                 /\ outcomes[attempt + 1].exc.status < 600
                 /\ attempt < max_retries - 1
         THEN retry_attempt(outcomes, attempt + 1, max_retries,
                            delay * backoff_factor, backoff_factor, last_exception,
                            Append(sleeps, delay))
         ELSE retry_raise(outcomes[attempt + 1].exc, attempt + 1, sleeps)
    ELSE retry_raise(outcomes[attempt + 1].exc, attempt + 1, sleeps)

retry_with_backoff(outcomes, max_retries, initial_delay, backoff_factor) ==
    retry_attempt(outcomes, 0, max_retries, initial_delay, backoff_factor,
                  NoException, <<>>)

(***************************************************************************)
(* Python's None and the values that may be None: <<>> is None, <<v>> is v.*)
(***************************************************************************)
None == <<>>
Some(v) == <<v>>

\* x or 0, for x an integer or None.
OrZero(x) == IF x = None \/ x[1] = 0 THEN 0 ELSE x[1]

(***************************************************************************)
(* find_track.  What the scrobbling service does during one invocation of  *)
(* _find is a record env:                                                  *)
(*   exact   - outcome of get_track(...).get_userplaycount()               *)
(*   search  - outcome of search_for_track(...).get_next_page()            *)
(*   results - the ranked search results, each with the two fuzzy_match    *)
(*             scores against the wanted artist and title and the outcome  *)
(*             of its get_userplaycount()                                  *)
(* A track handle says whether it is a track and its rank among the search *)
(* results (0: the exact match).                                           *)
(***************************************************************************)
TopResults == 10
FindRetries == 3

NoTrack == [found |-> FALSE, rank |-> 0]
Track(rank) == [found |-> TRUE, rank |-> rank]

Candidate(artist_val, title_val, read) ==
    [artist_val |-> artist_val, title_val |-> title_val, read |-> read]

\* The requests _find makes to the service, in order: the playcount read
\* of a track handle (rank 0: the handle network.get_track made) and the
\* search.
Read(rank) == [op |-> "get_userplaycount", rank |-> rank]
Search == [op |-> "search_for_track", rank |-> 0]

\* An outcome of _find, with the requests made on the way.
Did(o, requests) ==
    [ok |-> o.ok, value |-> o.value, exc |-> o.exc, requests |-> requests]

\* Mutant of find_scan: the loop runs over all results.
RECURSIVE find_scan_all(_, _, _, _)
find_scan_all(results, i, threshold, requests) ==
    IF i > Len(results)
    THEN Did(Returned(NoTrack), requests)
    ELSE IF results[i].artist_val >= threshold /\ results[i].title_val >= threshold
    THEN IF results[i].read.ok
         THEN Did(Returned(Track(i)), Append(requests, Read(i)))
         ELSE IF IsInstance(results[i].read.exc, {"WSError"})
         THEN find_scan_all(results, i + 1, threshold, Append(requests, Read(i)))
         ELSE Did(Raised(results[i].read.exc), Append(requests, Read(i)))
    ELSE find_scan_all(results, i + 1, threshold, requests)

\* The for loop over results[:10], from its i-th element on.
RECURSIVE find_scan(_, _, _, _)
find_scan(results, i, threshold, requests) ==
    IF i > Min(TopResults, Len(results))
    THEN Did(Returned(NoTrack), requests)
    ELSE IF results[i].artist_val >= threshold /\ results[i].title_val >= threshold
    THEN IF results[i].read.ok
         THEN Did(Returned(Track(i)), Append(requests, Read(i)))
         ELSE IF IsInstance(results[i].read.exc, {"WSError"})
         THEN find_scan(results, i + 1, threshold, Append(requests, Read(i)))
         ELSE Did(Raised(results[i].read.exc), Append(requests, Read(i)))
    ELSE find_scan(results, i + 1, threshold, requests)

\* Mutant of _find: the search is made whatever the exact lookup did.
_find_searches(env, threshold) ==
    IF env.exact.ok
    THEN Did(Returned(Track(0)), <<Read(0), Search>>)
    ELSE IF IsInstance(env.exact.exc, {"WSError"})
    THEN IF env.search.ok
         THEN find_scan(env.results, 1, threshold, <<Read(0), Search>>)
         ELSE Did(Raised(env.search.exc), <<Read(0), Search>>)
    ELSE Did(Raised(env.exact.exc), <<Read(0)>>)

_find(env, threshold) ==
    IF env.exact.ok
    THEN Did(Returned(Track(0)), <<Read(0)>>)
    ELSE IF IsInstance(env.exact.exc, {"WSError"})
    THEN IF env.search.ok
         THEN find_scan(env.results, 1, threshold, <<Read(0), Search>>)
         ELSE Did(Raised(env.search.exc), <<Read(0), Search>>)
    ELSE Did(Raised(env.exact.exc), <<Read(0)>>)

\* What find_track returns or raises, and the exception its except clause
\* swallowed (NoException: none).
FindResult(o, caught) ==
    [ok |-> o.ok, value |-> o.value, exc |-> o.exc, caught |-> caught]

\* The try/except of find_track around the result r of retry_with_backoff.
find_except(r) ==
    IF r.ok THEN FindResult(Returned(r.value), NoException)
    ELSE IF IsInstance(r.exc, {"Exception"})
    THEN FindResult(Returned(NoTrack), r.exc)
    ELSE FindResult(Raised(r.exc), NoException)

\* script[i] is the env of the i-th invocation of _find.
find_track(script, threshold) ==
    find_except(retry_with_backoff(
        [i \in 1..Len(script) |-> _find(script[i], threshold)],
        FindRetries, DefaultInitialDelay, DefaultBackoffFactor))

(***************************************************************************)
(* The playcount cache.  An entry is {} (the empty dict) or a dict with    *)
(* the keys playcount and scrobbled_this_run_count.                        *)
(***************************************************************************)
EmptyEntry == <<>>
DataEntry(playcount, scrobbled) ==
    [playcount |-> playcount, scrobbled_this_run_count |-> scrobbled]

HasData(pc_data) == "playcount" \in DOMAIN pc_data

\* Mutant of Store: the assignment rebinds the dict to the one entry.
Store_rebinds(cache, key, entry) == [k \in {key} |-> entry]

Store(cache, key, entry) ==
    [k \in DOMAIN cache \cup {key} |-> IF k = key THEN entry ELSE cache[k]]

\* What get_lastfm_playcount did: the dict afterwards and the value
\* returned (None or a count), or the exception leaving the function;
\* caught is the exception an except clause of find_track or of
\* get_lastfm_playcount swallowed on the way (NoException: none).
LookupResult(o, cache, caught) ==
    [ok |-> o.ok, value |-> o.value, exc |-> o.exc, cache |-> cache,
     caught |-> caught]

\* The last three statements: pc_data, and the value returned.
lookup_value(cache, key) ==
    IF HasData(cache[key])
    THEN Some(cache[key].playcount + cache[key].scrobbled_this_run_count)
    ELSE None

\* The body of the try: the entry made of the track t that find_track
\* returned and the outcome read of its get_userplaycount().
lookup_entry(t, read) ==
    IF t.value = NoTrack THEN Returned(EmptyEntry)
    ELSE IF read.ok THEN Returned(DataEntry(OrZero(read.value), 0))
    ELSE Raised(read.exc)

\* Mutant of lookup_except: the except clause catches WSError only.
lookup_except_narrow(cache, key, t, filled) ==
    IF filled.ok
    THEN LookupResult(Returned(lookup_value(Store(cache, key, filled.value), key)),
                      Store(cache, key, filled.value), t.caught)
    ELSE IF IsInstance(filled.exc, {"WSError"})
    THEN LookupResult(Returned(None), Store(cache, key, EmptyEntry), filled.exc)
    ELSE LookupResult(Raised(filled.exc), cache, NoException)

\* The try/except around the outcome filled of the body, for a find_track
\* that returned t.
lookup_except(cache, key, t, filled) ==
    IF filled.ok
    THEN LookupResult(Returned(lookup_value(Store(cache, key, filled.value), key)),
                      Store(cache, key, filled.value), t.caught)
    ELSE IF IsInstance(filled.exc, {"Exception"})
    THEN LookupResult(Returned(None), Store(cache, key, EmptyEntry), filled.exc)
    ELSE LookupResult(Raised(filled.exc), cache, NoException)

\* A key not cached yet, for a find_track that returned or raised t.
lookup_miss(cache, key, t, read) ==
    IF t.ok THEN lookup_except(cache, key, t, lookup_entry(t, read))
    ELSE lookup_except(cache, key, t, Raised(t.exc))

\* script: what the service does during find_track; read: the outcome of
\* the get_userplaycount() that fills the entry.
get_lastfm_playcount(cache, key, script, read, threshold) ==
    IF key \notin DOMAIN cache
    THEN lookup_miss(cache, key, find_track(script, threshold), read)
    ELSE LookupResult(Returned(lookup_value(cache, key)), cache, NoException)

(***************************************************************************)
(* scrobble_once.  script[i] is the outcome of the i-th invocation of      *)
(* _scrobble (network.scrobble, then the pacing sleep).  submits counts    *)
(* the invocations of network.scrobble.                                    *)
(***************************************************************************)
ScrobbleRetries == 5
ScrobbleInitialDelay == 2

EmitResult(o, cache, submits) ==
    [ok |-> o.ok, exc |-> o.exc, cache |-> cache, submits |-> submits]

\* Mutant of scrobble_count: the emission is not counted for the key.
scrobble_count_forgets(cache, key, submits) ==
    IF key \in DOMAIN cache /\ HasData(cache[key])
    THEN EmitResult(Returned(0), cache, submits)
    ELSE EmitResult(Raised(Exc("KeyError", 0, -1)), cache, submits)

\* Mutant of scrobble_count: the count goes up by two.
scrobble_count_twice(cache, key, submits) ==
    IF key \in DOMAIN cache /\ HasData(cache[key])
    THEN EmitResult(Returned(0),
                    [cache EXCEPT ![key].scrobbled_this_run_count = @ + 2], submits)
    ELSE EmitResult(Raised(Exc("KeyError", 0, -1)), cache, submits)

\* Mutant of scrobble_count: the count goes down by one.
scrobble_count_down(cache, key, submits) ==
    IF key \in DOMAIN cache /\ HasData(cache[key])
    THEN EmitResult(Returned(0),
                    [cache EXCEPT ![key].scrobbled_this_run_count = @ - 1], submits)
    ELSE EmitResult(Raised(Exc("KeyError", 0, -1)), cache, submits)

\* The last statement: LASTFM_PLAYCOUNTS[(artist, title)][...] += 1.
scrobble_count(cache, key, submits) ==
    IF key \in DOMAIN cache /\ HasData(cache[key])
    THEN EmitResult(Returned(0),
                    [cache EXCEPT ![key].scrobbled_this_run_count = @ + 1], submits)
    ELSE EmitResult(Raised(Exc("KeyError", 0, -1)), cache, submits)

\* Mutant of scrobble_live: a failed emission is counted for the key.
scrobble_live_counts(cache, key, r) ==
    IF r.ok THEN scrobble_count(cache, key, r.calls)
    ELSE EmitResult(Raised(r.exc),
                    [cache EXCEPT ![key].scrobbled_this_run_count = @ + 1], r.calls)

\* The else branch, for the result r of retry_with_backoff(_scrobble, ...).
scrobble_live(cache, key, r) ==
    IF r.ok THEN scrobble_count(cache, key, r.calls)
    ELSE EmitResult(Raised(r.exc), cache, r.calls)

\* Mutant of scrobble_once: a dry run returns before the count.
scrobble_once_dry_uncounted(cache, key, dry, script) ==
    IF dry
    THEN EmitResult(Returned(0), cache, 0)
    ELSE scrobble_live(cache, key,
                       retry_with_backoff(script, ScrobbleRetries,
                                          ScrobbleInitialDelay, DefaultBackoffFactor))

scrobble_once(cache, key, dry, script) ==
    IF dry
    THEN scrobble_count(cache, key, 0)
    ELSE scrobble_live(cache, key,
                       retry_with_backoff(script, ScrobbleRetries,
                                          ScrobbleInitialDelay, DefaultBackoffFactor))

(***************************************************************************)
(* One iteration of the while loop of main, on the pool tr, the dict cache *)
(* and the counter total.  cfg is the config module, maxs the --max        *)
(* argument.  in holds what the iteration draws and what the service does: *)
(*   idx    - random.randint(0, len(tracks) - 1)                           *)
(*   find   - the envs of find_track, read - the playcount read (both used *)
(*            only when the key is not cached yet)                         *)
(*   emit   - the outcomes of the invocations of _scrobble                 *)
(* branch names the path taken: done and limit are the two breaks, skip    *)
(* the removal, scrobble a counted emission, fail an emission that raised  *)
(* into the except clause of main; lookup_raised and emit_raised are an    *)
(* exception that leaves main.                                             *)
(***************************************************************************)
\* Mutant of Pop: the record stays in the list.
Pop_keep(seq, idx) == seq

Pop(seq, idx) == SubSeq(seq, 1, idx) \o SubSeq(seq, idx + 2, Len(seq))

Iteration(tr, cache, total, st, branch, t, lf_count, lookup, emitted, submits) ==
    [tracks |-> tr, cache |-> cache, total |-> total, state |-> st,
     branch |-> branch, key |-> t.key, nd_count |-> t.playcount,
     lf_count |-> lf_count, lookup |-> lookup, emitted |-> emitted,
     submits |-> submits]

\* What an iteration's lookup did: hit (the key was cached), resolved (a
\* first lookup that swallowed no exception) or the class of the exception
\* the first lookup swallowed.
Lookup(cache, key, g) ==
    IF key \in DOMAIN cache THEN "hit"
    ELSE IF g.caught = NoException THEN "resolved"
    ELSE g.caught.cls

\* What of a run the other run of PairSpec is compared on.
Visible(tr, cache, total, st) ==
    [tracks |-> tr, cache |-> cache, total |-> total, state |-> st]

VisibleOf(r) == Visible(r.tracks, r.cache, r.total, r.state)

NoRecord == [key |-> "", playcount |-> 0]

\* Mutants of can_scrobble: > for >= against the local playcount; None
\* taken for eligible; > for >= against the per-run cap; no lifetime cap.
can_scrobble_gt(cache, key, nd_count, lf_count, cfg) ==
    IF lf_count = None THEN FALSE
    ELSE IF lf_count[1] > nd_count THEN FALSE
    ELSE IF cache[key].scrobbled_this_run_count >= cfg.MAX_SCROBBLES_PER_TRACK_PER_RUN
    THEN FALSE
    ELSE IF lf_count[1] >= cfg.MAX_SCORRBLES_PER_TRACK_TOTAL THEN FALSE
    ELSE TRUE

can_scrobble_none(cache, key, nd_count, lf_count, cfg) ==
    IF lf_count = None THEN TRUE
    ELSE IF lf_count[1] >= nd_count THEN FALSE
    ELSE IF cache[key].scrobbled_this_run_count >= cfg.MAX_SCROBBLES_PER_TRACK_PER_RUN
    THEN FALSE
    ELSE IF lf_count[1] >= cfg.MAX_SCORRBLES_PER_TRACK_TOTAL THEN FALSE
    ELSE TRUE

can_scrobble_cap(cache, key, nd_count, lf_count, cfg) ==
    IF lf_count = None THEN FALSE
    ELSE IF lf_count[1] >= nd_count THEN FALSE
    ELSE IF cache[key].scrobbled_this_run_count > cfg.MAX_SCROBBLES_PER_TRACK_PER_RUN
    THEN FALSE
    ELSE IF lf_count[1] >= cfg.MAX_SCORRBLES_PER_TRACK_TOTAL THEN FALSE
    ELSE TRUE

can_scrobble_nolifetime(cache, key, nd_count, lf_count, cfg) ==
    IF lf_count = None THEN FALSE
    ELSE IF lf_count[1] >= nd_count THEN FALSE
    ELSE IF cache[key].scrobbled_this_run_count >= cfg.MAX_SCROBBLES_PER_TRACK_PER_RUN
    THEN FALSE
    ELSE TRUE

\* The chain of if/elif that decides can_scrobble.
can_scrobble(cache, key, nd_count, lf_count, cfg) ==
    IF lf_count = None THEN FALSE
    ELSE IF lf_count[1] >= nd_count THEN FALSE
    ELSE IF cache[key].scrobbled_this_run_count >= cfg.MAX_SCROBBLES_PER_TRACK_PER_RUN
    THEN FALSE
    ELSE IF lf_count[1] >= cfg.MAX_SCORRBLES_PER_TRACK_TOTAL THEN FALSE
    ELSE TRUE

\* Mutant of main_emitted: a scrobble that returned is not added to the total.
main_emitted_uncounted(tr, total, t, lf_count, lookup, s) ==
    IF s.ok
    THEN Iteration(tr, s.cache, total, "Running", "scrobble", t, lf_count,
                   lookup, TRUE, s.submits)
    ELSE IF IsInstance(s.exc, {"Exception"})
    THEN Iteration(tr, s.cache, total, "Running", "fail", t, lf_count, lookup,
                   TRUE, s.submits)
    ELSE Iteration(tr, s.cache, total, "Crashed", "emit_raised", t, lf_count,
                   lookup, TRUE, s.submits)

\* The try/except around scrobble_once, which returned or raised s.
main_emitted(tr, total, t, lf_count, lookup, s) ==
    IF s.ok
    THEN Iteration(tr, s.cache, total + 1, "Running", "scrobble", t, lf_count,
                   lookup, TRUE, s.submits)
    ELSE IF IsInstance(s.exc, {"Exception"})
    THEN Iteration(tr, s.cache, total, "Running", "fail", t, lf_count, lookup,
                   TRUE, s.submits)
    ELSE Iteration(tr, s.cache, total, "Crashed", "emit_raised", t, lf_count,
                   lookup, TRUE, s.submits)

\* From lf_count = get_lastfm_playcount(...) on, which returned or raised g.
main_looked_up(tr, total, cfg, dry, in, t, lookup, g) ==
    IF ~g.ok
    THEN Iteration(tr, g.cache, total, "Crashed", "lookup_raised", t, None,
                   lookup, FALSE, 0)
    ELSE IF ~can_scrobble(g.cache, t.key, t.playcount, g.value, cfg)
    THEN Iteration(Pop(tr, in.idx), g.cache, total, "Running", "skip", t,
                   g.value, lookup, FALSE, 0)
    ELSE main_emitted(tr, total, t, g.value, lookup,
                      scrobble_once(g.cache, t.key, dry, in.emit))

\* From t = tracks[idx] on.
main_drawn(tr, cache, total, cfg, dry, in, t, g) ==
    main_looked_up(tr, total, cfg, dry, in, t, Lookup(cache, t.key, g), g)

\* Mutant of main_iteration: > for >= against the run-wide cap.
main_iteration_gt(tr, cache, total, cfg, dry, maxs, in) ==
    IF Len(tr) = 0
    THEN Iteration(tr, cache, total, "Done", "done", NoRecord, None, "none", FALSE, 0)
    ELSE IF maxs # None /\ total > maxs[1]
    THEN Iteration(tr, cache, total, "LimitReached", "limit", NoRecord, None,
                   "none", FALSE, 0)
    ELSE main_drawn(tr, cache, total, cfg, dry, in, tr[in.idx + 1],
                    get_lastfm_playcount(cache, tr[in.idx + 1].key, in.find,
                                         in.read, cfg.FUZZY_THRESHOLD))

\* Mutant of main_iteration: an empty pool does not end the loop.
main_iteration_continues(tr, cache, total, cfg, dry, maxs, in) ==
    IF Len(tr) = 0
    THEN Iteration(tr, cache, total, "Running", "done", NoRecord, None, "none", FALSE, 0)
    ELSE IF maxs # None /\ total >= maxs[1]
    THEN Iteration(tr, cache, total, "LimitReached", "limit", NoRecord, None,
                   "none", FALSE, 0)
    ELSE main_drawn(tr, cache, total, cfg, dry, in, tr[in.idx + 1],
                    get_lastfm_playcount(cache, tr[in.idx + 1].key, in.find,
                                         in.read, cfg.FUZZY_THRESHOLD))

main_iteration(tr, cache, total, cfg, dry, maxs, in) ==
    IF Len(tr) = 0
    THEN Iteration(tr, cache, total, "Done", "done", NoRecord, None, "none", FALSE, 0)
    ELSE IF maxs # None /\ total >= maxs[1]
    THEN Iteration(tr, cache, total, "LimitReached", "limit", NoRecord, None,
                   "none", FALSE, 0)
    ELSE main_drawn(tr, cache, total, cfg, dry, in, tr[in.idx + 1],
                    get_lastfm_playcount(cache, tr[in.idx + 1].key, in.find,
                                         in.read, cfg.FUZZY_THRESHOLD))

(***************************************************************************)
(* What the environment can do: the service's answers the actions draw.    *)
(***************************************************************************)
WSError == Exc("WSError", 0, -1)            \* pylast: the service's error reply
NetworkError == Exc("NetworkError", 0, -1)  \* pylast: not a class retried

\* The documented scenario: local 10, remote 7, per-run cap 3, lifetime cap 100.
Scenario == [local |-> 10, remote |-> 7, per_run |-> 3, lifetime |-> 100]

RemoteCounts == (0..MaxRemote) \cup {Scenario.remote}

Reads == {Returned(Some(n)) : n \in RemoteCounts}
             \cup {Returned(None), Raised(WSError), Raised(NetworkError)}

Env(exact, search, results) == [exact |-> exact, search |-> search, results |-> results]

EnvExact == Env(Returned(Some(0)), Returned(0), <<>>)
EnvExactFatal == Env(Raised(NetworkError), Returned(0), <<>>)
EnvSearchFails == Env(Raised(WSError), Raised(WSError), <<>>)
EnvFuzzySecond ==
    Env(Raised(WSError), Returned(0),
        <<Candidate(92, 40, Returned(Some(0))), Candidate(90, 95, Returned(Some(0)))>>)
EnvFuzzyNone ==
    Env(Raised(WSError), Returned(0),
        <<Candidate(92, 40, Returned(Some(0))), Candidate(90, 95, Raised(WSError))>>)

\* What the service does during the invocations of _find of one lookup:
\* e each time, after the search failed during the first k invocations.
FindScript(k, e) == [i \in 1..FindRetries |-> IF i <= k THEN EnvSearchFails ELSE e]

FindScripts == {FindScript(0, EnvExact), FindScript(1, EnvFuzzySecond),
                FindScript(0, EnvFuzzyNone), FindScript(1, EnvExactFatal),
                FindScript(FindRetries, EnvExact)}

\* The outcomes of the invocations of _scrobble of one emission: o each
\* time, after the first k invocations raised WSError.
EmitScript(k, o) == [i \in 1..ScrobbleRetries |-> IF i <= k THEN Raised(WSError) ELSE o]

AllSucceed == EmitScript(0, Returned(0))

\* The scripts under which scrobble_once returns, and those under which it
\* raises.
EmitSucceeds == {AllSucceed, EmitScript(1, Returned(0))}
EmitFails == {EmitScript(1, Raised(NetworkError)),
              EmitScript(ScrobbleRetries, Returned(0))}

Input(idx, find, read, emit) == [idx |-> idx, find |-> find, read |-> read, emit |-> emit]

(***************************************************************************)
(* The initial states: main after fetch_all_tracks returned the pool,      *)
(* total_scrobbled = 0, LASTFM_PLAYCOUNTS = {}.                            *)
(***************************************************************************)
Records == [key : Keys, playcount : 1..MaxLocal]

RECURSIVE Lists(_, _)
Lists(S, n) == IF n = 0 THEN {<<>>}
               ELSE Lists(S, n - 1) \cup {Append(l, x) : l \in {m \in Lists(S, n - 1) : Len(m) = n - 1}, x \in S}

\* The order of the pool does not matter to a loop that draws at random, nor
\* do the names of the keys: the pools are listed in one order, keys first.
KeyRank(k) == IF k = "k1" THEN 1 ELSE 2

Sorted(pool) ==
    \A i \in 1..(Len(pool) - 1) :
        \/ KeyRank(pool[i].key) < KeyRank(pool[i + 1].key)
        \/ /\ pool[i].key = pool[i + 1].key
           /\ pool[i].playcount <= pool[i + 1].playcount

Pools == {pool \in Lists(Records, MaxPool) :
            Sorted(pool) /\ (pool # <<>> => pool[1].key = "k1")}

Config(threshold, per_run, lifetime) ==
    [FUZZY_THRESHOLD |-> threshold, MAX_SCROBBLES_PER_TRACK_PER_RUN |-> per_run,
     MAX_SCORRBLES_PER_TRACK_TOTAL |-> lifetime]

Configs == {Config(85, p, t) : p \in 0..MaxPerRun, t \in 0..MaxLifetime}

RunCaps == {None} \cup {Some(m) : m \in 0..MaxRunCap}

NoCall == [op |-> "none"]

NoIteration ==
    Iteration(<<>>, <<>>, 0, "Running", "none", NoRecord, None, "none", FALSE, 0)

Start(pool, cfg, dry, maxs) ==
    /\ tracks = pool
    /\ tracks0 = pool
    /\ LASTFM_PLAYCOUNTS = <<>>
    /\ total_scrobbled = 0
    /\ state = "Running"
    /\ dry_run = dry
    /\ max_scrobbles = maxs
    /\ config = cfg
    /\ steps = 0
    /\ failed = FALSE
    /\ last = NoIteration
    /\ ledger = <<>>

Pools0 ==
    /\ \/ \E pool \in Pools, cfg \in Configs, dry \in BOOLEAN, maxs \in RunCaps :
            Start(pool, cfg, dry, maxs)
       \/ \E dry \in BOOLEAN :
            Start(<<[key |-> "k1", playcount |-> Scenario.local]>>,
                  Config(85, Scenario.per_run, Scenario.lifetime), dry, None)
    /\ call = NoCall
    /\ tick = FALSE

Init == Pools0 /\ shadow = <<>>

\* A dry run, and beside it the live run on the same pool and arguments.
PairInit ==
    /\ Pools0
    /\ dry_run
    /\ shadow = Visible(tracks, LASTFM_PLAYCOUNTS, total_scrobbled, state)

(***************************************************************************)
(* The actions: one per path through an iteration of the loop.             *)
(***************************************************************************)
\* The key of the record at idx is in the dict.
Cached(idx) ==
    idx < Len(tracks) /\ tracks[idx + 1].key \in DOMAIN LASTFM_PLAYCOUNTS

\* The service's answers a lookup of the record at idx can consume, out of
\* S: a key already cached consumes none, so one stands for all.
Answers(idx, S) == IF Cached(idx) THEN {CHOOSE x \in S : TRUE} ELSE S

\* The ledger after an iteration r.  A lookup that did not find the key in
\* the dict is counted for the key, with what it swallowed (cause) and the
\* value it returned to main (remote); an emission that returned is counted.
Looked(l, r) ==
    IF r.lookup = "hit" THEN l
    ELSE Store(l, r.key,
               [remote |-> r.lf_count, cause |-> r.lookup, emitted |-> 0,
                lookups |-> IF r.key \in DOMAIN l THEN l[r.key].lookups + 1 ELSE 1])

Ledger(l, r) ==
    IF r.branch \in {"done", "limit"} THEN l
    ELSE IF r.branch = "scrobble"
    THEN [Looked(l, r) EXCEPT ![r.key].emitted = @ + 1]
    ELSE Looked(l, r)

\* The step to the state the iteration r leaves.
Becomes(r, branches) ==
    /\ r.branch \in branches
    /\ tracks' = r.tracks
    /\ LASTFM_PLAYCOUNTS' = r.cache
    /\ total_scrobbled' = r.total
    /\ state' = r.state
    /\ last' = [r EXCEPT !.tracks = <<>>, !.cache = <<>>, !.total = 0]
    /\ ledger' = Ledger(ledger, r)
    /\ failed' = (failed \/ r.branch = "fail")
    /\ steps' = IF r.branch \in {"done", "limit"} \/ failed' THEN steps ELSE steps + 1

Turn(branches, F, R, E) ==
    /\ state = "Running"
    /\ \E idx \in 0..Max(Len(tracks) - 1, 0) :
         \E f \in Answers(idx, F), r \in Answers(idx, R), e \in E :
            Becomes(main_iteration(tracks, LASTFM_PLAYCOUNTS, total_scrobbled,
                                   config, dry_run, max_scrobbles,
                                   Input(idx, f, r, e)), branches)
    /\ UNCHANGED <<dry_run, max_scrobbles, config, tracks0, shadow, call>>

Iterate(branches, F, R, E) == Turn(branches, F, R, E) /\ UNCHANGED tick

\* An iteration of the run in the variables and, with the same draw and the
\* same answers of the service, an iteration of the live run in shadow.
PairIterate(branches, F, R, E) ==
    /\ state = "Running"
    /\ \E idx \in 0..Max(Len(tracks) - 1, 0) :
         \E f \in Answers(idx, F), r \in Answers(idx, R), e \in E :
            /\ Becomes(main_iteration(tracks, LASTFM_PLAYCOUNTS, total_scrobbled,
                                      config, dry_run, max_scrobbles,
                                      Input(idx, f, r, e)), branches)
            /\ shadow' = VisibleOf(main_iteration(shadow.tracks, shadow.cache,
                                                  shadow.total, config, FALSE,
                                                  max_scrobbles, Input(idx, f, r, e)))
    /\ UNCHANGED <<dry_run, max_scrobbles, config, tracks0, call, tick>>

\* len(tracks) == 0: break.
LoopDone == Iterate({"done"}, {FindScript(0, EnvExact)}, {Returned(None)}, {AllSucceed})

\* total_scrobbled >= max_scrobbles: break.
LoopLimit == Iterate({"limit"}, {FindScript(0, EnvExact)}, {Returned(None)}, {AllSucceed})

\* The lookup, then not can_scrobble: tracks.pop(idx).
Skip == Iterate({"skip", "lookup_raised"}, FindScripts, Reads, {AllSucceed})

\* The lookup, then scrobble_once returned: total_scrobbled += 1.
Scrobble == Iterate({"scrobble"}, FindScripts, Reads, EmitSucceeds)

\* The lookup, then scrobble_once raised: the track stays in the pool.
ScrobbleFailed == Iterate({"fail", "emit_raised"}, FindScripts, Reads, EmitFails)

Next == LoopDone \/ LoopLimit \/ Skip \/ Scrobble \/ ScrobbleFailed

Spec == Init /\ [][Next]_vars

(***************************************************************************)
(* LiveSpec: the run as scheduled. `while True` keeps iterating until a    *)
(* break: tick counts the iterations modulo two, so that an iteration that *)
(* changes nothing else (a failed emission drawn again) is a step too, and *)
(* while the loop is Running the next iteration is eventually taken.       *)
(***************************************************************************)
LiveIterate(branches, F, R, E) == Turn(branches, F, R, E) /\ tick' = ~tick

LiveDone == LiveIterate({"done"}, {FindScript(0, EnvExact)}, {Returned(None)}, {AllSucceed})
LiveLimit == LiveIterate({"limit"}, {FindScript(0, EnvExact)}, {Returned(None)}, {AllSucceed})
LiveSkip == LiveIterate({"skip", "lookup_raised"}, FindScripts, Reads, {AllSucceed})
LiveScrobble == LiveIterate({"scrobble"}, FindScripts, Reads, EmitSucceeds)
LiveScrobbleFailed == LiveIterate({"fail", "emit_raised"}, FindScripts, Reads, EmitFails)

LiveNext == LiveDone \/ LiveLimit \/ LiveSkip \/ LiveScrobble \/ LiveScrobbleFailed

\* The loop takes another iteration.
Iterates == state = "Running" /\ tick' = ~tick

LiveSpec == Init /\ [][LiveNext]_vars /\ WF_tick(Iterates)

(***************************************************************************)
(* PairSpec: a dry run whose every iteration is mirrored by a live run in  *)
(* which every invocation of network.scrobble succeeds.                    *)
(***************************************************************************)
PairDone == PairIterate({"done"}, {FindScript(0, EnvExact)}, {Returned(None)}, {AllSucceed})
PairLimit == PairIterate({"limit"}, {FindScript(0, EnvExact)}, {Returned(None)}, {AllSucceed})
PairSkip == PairIterate({"skip", "lookup_raised"}, FindScripts, Reads, {AllSucceed})
PairScrobble == PairIterate({"scrobble", "fail", "emit_raised"},
                            FindScripts, Reads, {AllSucceed})

PairNext == PairDone \/ PairLimit \/ PairSkip \/ PairScrobble

PairSpec == PairInit /\ [][PairNext]_vars

(***************************************************************************)
(* CallSpec: one call of retry_with_backoff, on what each invocation of    *)
(* func does and on the arguments of the call; or one call of _find or of  *)
(* find_track, on what the service does.                                   *)
(***************************************************************************)
MaxRetries == 3     \* largest max_retries of a call
MaxDelay == 2       \* largest initial_delay of a call
MaxFactor == 3      \* largest backoff_factor of a call
MaxResults == 3     \* longest list of search results made of any candidates

Timeout == Exc("Timeout", 0, -1)                  \* requests.exceptions.Timeout
ConnectionError == Exc("ConnectionError", 0, -1)  \* requests.exceptions.ConnectionError
ValueError == Exc("ValueError", 0, -1)            \* api_call: an invalid response

\* What r.raise_for_status() raises for a response with this status and
\* Retry-After header.
HTTPError(status, retry_after) == Exc("HTTPError", status, retry_after)

FuncOutcomes ==
    {Returned(0), Raised(Timeout), Raised(ConnectionError), Raised(WSError),
     Raised(HTTPError(429, 5)), Raised(HTTPError(503, -1)),
     Raised(HTTPError(404, -1)), Raised(ValueError)}

Pending == [ok |-> FALSE, pending |-> TRUE]

RetryCall(outcomes, max_retries, initial_delay, backoff_factor) ==
    [op |-> "retry_with_backoff", outcomes |-> outcomes,
     max_retries |-> max_retries, initial_delay |-> initial_delay,
     backoff_factor |-> backoff_factor, done |-> FALSE, result |-> Pending]

RetryCalls ==
    UNION {{RetryCall(o, n, d, f) :
                o \in [1..n -> FuncOutcomes], d \in 1..MaxDelay, f \in 2..MaxFactor}
           : n \in 1..MaxRetries}

\* The program outside the call: main has not started.
Idle ==
    /\ Start(<<>>, Config(85, 0, 0), FALSE, None)
    /\ shadow = <<>>
    /\ tick = FALSE

\* Search results: a candidate that fails the title score, one that just
\* clears both, one that just fails the artist score, and two that clear
\* both but whose playcount cannot be read.
Rejected == Candidate(92, 40, Returned(Some(0)))

CandidateKinds ==
    {Rejected, Candidate(85, 85, Returned(Some(0))),
     Candidate(84, 90, Returned(Some(0))), Candidate(90, 95, Raised(WSError)),
     Candidate(90, 95, Raised(NetworkError))}

\* n rejected candidates, then one that clears both scores.
Padded(n) ==
    [i \in 1..(n + 1) |-> IF i <= n THEN Rejected
                          ELSE Candidate(90, 95, Returned(Some(0)))]

ResultLists ==
    UNION {[1..n -> CandidateKinds] : n \in 0..MaxResults}
      \cup {Padded(TopResults - 1), Padded(TopResults)}

FindEnvs ==
    {Env(exact, search, results) :
        exact \in {Returned(Some(0)), Raised(WSError), Raised(NetworkError)},
        search \in {Returned(0), Raised(WSError)},
        results \in ResultLists}

EnvFuzzyFatal ==
    Env(Raised(WSError), Returned(0),
        <<Candidate(90, 95, Raised(NetworkError)), Candidate(90, 95, Returned(Some(0)))>>)

EnvKinds == {EnvExact, EnvExactFatal, EnvSearchFails, EnvFuzzySecond,
             EnvFuzzyNone, EnvFuzzyFatal}

FindCall(env, threshold) ==
    [op |-> "_find", env |-> env, threshold |-> threshold, done |-> FALSE,
     result |-> Pending]

FindTrackCall(script, threshold) ==
    [op |-> "find_track", script |-> script, threshold |-> threshold,
     done |-> FALSE, result |-> Pending]

FindCalls == {FindCall(env, 85) : env \in FindEnvs}

FindTrackCalls == {FindTrackCall(script, 85) : script \in [1..FindRetries -> EnvKinds]}

CallInit == Idle /\ call \in RetryCalls \cup FindCalls \cup FindTrackCalls

Returns(result) ==
    /\ ~call.done
    /\ call' = [call EXCEPT !.done = TRUE, !.result = result]
    /\ UNCHANGED <<tracks, LASTFM_PLAYCOUNTS, total_scrobbled, state, dry_run,
                   max_scrobbles, config, tracks0, steps, failed, last, ledger,
                   shadow, tick>>

RetryWithBackoff ==
    /\ call.op = "retry_with_backoff"
    /\ Returns(retry_with_backoff(call.outcomes, call.max_retries,
                                  call.initial_delay, call.backoff_factor))

Find ==
    /\ call.op = "_find"
    /\ Returns(_find(call.env, call.threshold))

FindTrack ==
    /\ call.op = "find_track"
    /\ Returns(find_track(call.script, call.threshold))

CallNext == RetryWithBackoff \/ Find \/ FindTrack

CallSpec == CallInit /\ [][CallNext]_vars

(***************************************************************************)
(* Properties.  A step that drew a candidate raises steps by one and       *)
(* leaves in last' the drawn record, the value lf_count the lookup         *)
(* returned (the effective remote playcount before any emission) and what  *)
(* the iteration did.                                                      *)
(***************************************************************************)
Drew == last'.branch \notin {"none", "done", "limit"}

Running == state = "Running"

PerRunCap == config.MAX_SCROBBLES_PER_TRACK_PER_RUN
LifetimeCap == config.MAX_SCORRBLES_PER_TRACK_TOTAL

ScrobbledThisRun(cache, k) ==
    IF k \in DOMAIN cache /\ HasData(cache[k])
    THEN cache[k].scrobbled_this_run_count ELSE 0

\* The drawn record left the pool, and nothing else did.
RemovedDrawn ==
    \E idx \in 0..(Len(tracks) - 1) :
        /\ tracks[idx + 1] = [key |-> last'.key, playcount |-> last'.nd_count]
        /\ tracks' = Pop(tracks, idx)

\* The entries the dict held are as they were; the only entry it may have
\* gained is the drawn key's, with nothing scrobbled.
EntriesKept ==
    /\ DOMAIN LASTFM_PLAYCOUNTS \subseteq DOMAIN LASTFM_PLAYCOUNTS'
    /\ \A k \in DOMAIN LASTFM_PLAYCOUNTS : LASTFM_PLAYCOUNTS'[k] = LASTFM_PLAYCOUNTS[k]
    /\ \A k \in DOMAIN LASTFM_PLAYCOUNTS' \ DOMAIN LASTFM_PLAYCOUNTS :
           /\ k = last'.key
           /\ ScrobbledThisRun(LASTFM_PLAYCOUNTS', k) = 0

\* The emitter was not invoked and nothing was counted.
NothingEmitted ==
    /\ ~last'.emitted
    /\ last'.submits = 0
    /\ total_scrobbled' = total_scrobbled
    /\ EntriesKept

SkippedAndRemoved ==
    /\ last'.branch = "skip"
    /\ RemovedDrawn
    /\ NothingEmitted
    /\ state' = "Running"

\* C1: in every step of the loop, a drawn candidate whose effective remote
\* playcount is at least its local playcount is removed from the pool in
\* that step, and no scrobble is emitted for it: scrobble_once is not
\* invoked, and neither a scrobbled_this_run_count nor total_scrobbled
\* changes.
C1_CaughtUpRemoved ==
    [][(Drew /\ last'.lf_count # None /\ last'.lf_count[1] >= last'.nd_count)
         => SkippedAndRemoved]_vars

\* C1 witness: a record was removed because the scrobbles of this run had
\* brought its effective remote playcount up to its local playcount.
C1_Witness ==
    /\ last.branch = "skip"
    /\ last.lf_count # None
    /\ last.lf_count[1] >= last.nd_count
    /\ last.lf_count[1] < LifetimeCap
    /\ ScrobbledThisRun(LASTFM_PLAYCOUNTS, last.key) >= 1

\* C2: in every step of the loop, a drawn candidate whose key has no remote
\* data (its entry is the empty dict, the lookup returns None) is removed
\* from the pool in that step and no scrobble is emitted for it.
C2_NoRemoteDataRemoved ==
    [][(Drew /\ last'.key \in DOMAIN LASTFM_PLAYCOUNTS'
             /\ ~HasData(LASTFM_PLAYCOUNTS'[last'.key]))
         => (SkippedAndRemoved /\ last'.lf_count = None)]_vars

\* C2 witness: a record of a key found to have no remote data by an earlier
\* iteration was drawn and removed.
C2_Witness ==
    /\ last.branch = "skip"
    /\ last.lookup = "hit"
    /\ last.lf_count = None
    /\ LASTFM_PLAYCOUNTS[last.key] = EmptyEntry
    /\ steps >= 2

\* C3: in every reachable state, every key with remote data has a
\* scrobbled_this_run_count of at most the per-track-per-run cap, whatever
\* the draws and the failed emissions, also when records share a key.
C3_PerRunCap ==
    \A k \in DOMAIN LASTFM_PLAYCOUNTS :
        HasData(LASTFM_PLAYCOUNTS[k])
            => LASTFM_PLAYCOUNTS[k].scrobbled_this_run_count <= PerRunCap

\* C3 witness: two records share a key whose count reached the cap, one of
\* them with plays still missing remotely, after a failed emission.
C3_Witness ==
    /\ Len(tracks0) = 2
    /\ tracks0[1].key = tracks0[2].key
    /\ tracks0[1].playcount # tracks0[2].playcount
    /\ PerRunCap >= 1
    /\ failed
    /\ ScrobbledThisRun(LASTFM_PLAYCOUNTS, tracks0[1].key) = PerRunCap
    /\ \E i \in 1..2 :
          LASTFM_PLAYCOUNTS[tracks0[1].key].playcount + PerRunCap < tracks0[i].playcount

\* C4: with a run-wide cap M configured, total_scrobbled never exceeds M,
\* and once it has reached M the next iteration draws no candidate and
\* emits nothing: it ends the loop, in Done when the pool is empty and in
\* LimitReached otherwise.
C4_RunCap ==
    /\ [](max_scrobbles # None => total_scrobbled <= max_scrobbles[1])
    /\ [][(max_scrobbles # None /\ Running /\ total_scrobbled >= max_scrobbles[1])
            => /\ state' = IF Len(tracks) = 0 THEN "Done" ELSE "LimitReached"
               /\ ~Drew
               /\ UNCHANGED <<tracks, LASTFM_PLAYCOUNTS, total_scrobbled>>]_vars

\* C4 witness: the loop stopped at the cap with a record still in the pool
\* that lacked plays remotely.
C4_Witness ==
    /\ state = "LimitReached"
    /\ max_scrobbles # None
    /\ max_scrobbles[1] >= 1
    /\ total_scrobbled = max_scrobbles[1]
    /\ \E i \in 1..Len(tracks) :
          /\ tracks[i].key \in DOMAIN LASTFM_PLAYCOUNTS
          /\ HasData(LASTFM_PLAYCOUNTS[tracks[i].key])
          /\ lookup_value(LASTFM_PLAYCOUNTS, tracks[i].key)[1] < tracks[i].playcount
          /\ ScrobbledThisRun(LASTFM_PLAYCOUNTS, tracks[i].key) < PerRunCap
          /\ lookup_value(LASTFM_PLAYCOUNTS, tracks[i].key)[1] < LifetimeCap

\* C5: no scrobble is emitted for a drawn candidate whose effective remote
\* playcount is at least the lifetime cap; hence every key scrobbled in
\* this run has playcount + scrobbled_this_run_count at most that cap.
C5_LifetimeCap ==
    /\ [][(Drew /\ last'.lf_count # None /\ last'.lf_count[1] >= LifetimeCap)
            => (last'.branch = "skip" /\ NothingEmitted)]_vars
    /\ [](\A k \in DOMAIN LASTFM_PLAYCOUNTS :
              ScrobbledThisRun(LASTFM_PLAYCOUNTS, k) >= 1
                  => lookup_value(LASTFM_PLAYCOUNTS, k)[1] <= LifetimeCap)

\* C5 witness: a record was removed for the lifetime cap alone: plays were
\* missing remotely and the per-run cap was not reached.
C5_Witness ==
    /\ last.branch = "skip"
    /\ last.lf_count # None
    /\ last.lf_count[1] >= LifetimeCap
    /\ last.lf_count[1] < last.nd_count
    /\ ScrobbledThisRun(LASTFM_PLAYCOUNTS, last.key) < PerRunCap

\* The scrobbles due to a single track: max(0, min(L - R, P, T - R)).
Due(L, R, P, T) == Max(0, Min(L - R, Min(P, T - R)))

SingleDue ==
    Due(tracks0[1].playcount, LASTFM_PLAYCOUNTS[tracks0[1].key].playcount,
        PerRunCap, LifetimeCap)

\* C6: a pool of a single resolvable track (local L, remote R), caps P and
\* T, no run-wide cap, no failed emission: the run emits exactly
\* max(0, min(L - R, P, T - R)) scrobbles, removes the track on the draw
\* after the last of them and ends in Done; L = 10, R = 7, P = 3, T = 100
\* gives 3 scrobbles and an effective remote playcount of 10.
C6_SingleTrack ==
    (/\ Len(tracks0) = 1
     /\ max_scrobbles = None
     /\ ~failed
     /\ tracks0[1].key \in DOMAIN LASTFM_PLAYCOUNTS
     /\ HasData(LASTFM_PLAYCOUNTS[tracks0[1].key]))
    => /\ total_scrobbled <= SingleDue
       /\ total_scrobbled = ScrobbledThisRun(LASTFM_PLAYCOUNTS, tracks0[1].key)
       /\ (Running /\ total_scrobbled < SingleDue) => steps = total_scrobbled
       /\ Len(tracks) = 0 => (total_scrobbled = SingleDue /\ steps = SingleDue + 1)
       /\ state = "Done" => Len(tracks) = 0
       /\ state # "LimitReached"
       /\ (/\ tracks0[1].playcount = Scenario.local
           /\ LASTFM_PLAYCOUNTS[tracks0[1].key].playcount = Scenario.remote
           /\ PerRunCap = Scenario.per_run
           /\ LifetimeCap = Scenario.lifetime
           /\ state = "Done")
          => (total_scrobbled = 3
              /\ lookup_value(LASTFM_PLAYCOUNTS, tracks0[1].key) = Some(10))

\* C6 witness: the documented scenario, run to Done.
C6_Witness ==
    /\ state = "Done"
    /\ tracks0 = <<[key |-> "k1", playcount |-> 10]>>
    /\ max_scrobbles = None
    /\ ~failed
    /\ config = Config(85, 3, 100)
    /\ LASTFM_PLAYCOUNTS = [k \in {"k1"} |-> DataEntry(7, 3)]
    /\ total_scrobbled = 3
    /\ steps = 4
    /\ last.branch = "done"

\* C7: with a run-wide cap M and no failed emission, the loop draws at
\* most len(pool) + M candidates before it ends: after that many draws the
\* next iteration is a break.
C7_StepBound ==
    (max_scrobbles # None /\ ~failed)
    => /\ steps <= Len(tracks0) + max_scrobbles[1]
       /\ steps = (Len(tracks0) - Len(tracks)) + total_scrobbled
       /\ (steps = Len(tracks0) + max_scrobbles[1]) => Len(tracks) = 0

\* C7 witness: a run without a failed emission that ended at the cap after
\* removals and emissions, len(pool) + M - 1 draws in all.
C7_Witness ==
    /\ state = "LimitReached"
    /\ max_scrobbles # None
    /\ max_scrobbles[1] >= 1
    /\ Len(tracks0) = 2
    /\ ~failed
    /\ Len(tracks) = 1
    /\ steps = Len(tracks0) + max_scrobbles[1] - 1

\* C8: when scrobble_once raises, the iteration leaves the pool, the
\* entries of the dict (the scrobbled_this_run_count of the drawn key among
\* them) and total_scrobbled as they were, and the loop stays Running.
C8_FailedEmissionFrame ==
    [][(Drew /\ last'.branch \notin {"skip", "scrobble"})
         => /\ last'.branch = "fail"
            /\ tracks' = tracks
            /\ total_scrobbled' = total_scrobbled
            /\ EntriesKept
            /\ ScrobbledThisRun(LASTFM_PLAYCOUNTS', last'.key)
                 = ScrobbledThisRun(LASTFM_PLAYCOUNTS, last'.key)
            /\ state' = "Running"]_vars

\* C8 witness: an emission failed with its retries exhausted, for a key that
\* had been scrobbled before in this run.
C8_Witness ==
    /\ last.branch = "fail"
    /\ last.submits = ScrobbleRetries
    /\ ScrobbledThisRun(LASTFM_PLAYCOUNTS, last.key) >= 1
    /\ Running
    /\ Len(tracks) >= 1

\* C9: a failure while a track is resolved (retries exhausted, an exception
\* that is not retried, a failing playcount read) never leaves the lookup:
\* the key is stored with no remote data, the candidate is removed without
\* a scrobble and the loop goes on; main never ends by an exception.
C9_LookupFailureContained ==
    /\ [](state # "Crashed")
    /\ [][(Drew /\ last'.lookup \notin {"hit", "resolved"})
            => /\ LASTFM_PLAYCOUNTS'[last'.key] = EmptyEntry
               /\ SkippedAndRemoved]_vars

\* C9 witness: a lookup swallowed an exception that is not retried; the
\* record was removed and the loop is Running with a record left to draw.
C9_Witness ==
    /\ last.branch = "skip"
    /\ last.lookup = "NetworkError"
    /\ LASTFM_PLAYCOUNTS[last.key] = EmptyEntry
    /\ Running
    /\ Len(tracks) = Len(tracks0) - 1
    /\ Len(tracks) >= 1

\* C10: in a dry run network.scrobble is never invoked and every emission
\* succeeds, and the pool, the dict, total_scrobbled and the loop's state
\* are in every step those of the live run on the same pool, draws and
\* remote answers in which every network.scrobble succeeds.
C10_DryRunMirrorsLive ==
    dry_run => /\ last.submits = 0
               /\ last.branch \notin {"fail", "emit_raised"}
               /\ shadow = Visible(tracks, LASTFM_PLAYCOUNTS, total_scrobbled, state)

\* C10 witness: a dry run that counted two emissions and ended, as the
\* live run beside it did.
C10_Witness ==
    /\ dry_run
    /\ state \in {"Done", "LimitReached"}
    /\ total_scrobbled >= 2
    /\ shadow.total = total_scrobbled
    /\ shadow.state = state

(***************************************************************************)
(* Properties of retry_with_backoff, on a call that has returned.          *)
(***************************************************************************)
RetryDone == call.op = "retry_with_backoff" /\ call.done
FindDone == call.op = "_find" /\ call.done
FindTrackDone == call.op = "find_track" /\ call.done

RECURSIVE Pow(_, _)
Pow(b, n) == IF n = 0 THEN 1 ELSE b * Pow(b, n - 1)

\* The kinds of failure of an attempt: a timeout, a connection failure or
\* the service's error reply; HTTP 429; HTTP 5xx; anything else.
Transient(o) == ~o.ok /\ o.exc.cls \in {"Timeout", "ConnectionError", "WSError"}
RateLimited(o) == ~o.ok /\ o.exc.cls = "HTTPError" /\ o.exc.status = 429
ServerError(o) ==
    ~o.ok /\ o.exc.cls = "HTTPError" /\ o.exc.status >= 500 /\ o.exc.status < 600
NonRetryable(o) == ~o.ok /\ ~Transient(o) /\ ~RateLimited(o) /\ ~ServerError(o)

\* The backoff delay in force at attempt i: initial_delay, multiplied once
\* for every earlier attempt that was not rate-limited.
DelayAt(i) ==
    call.initial_delay
      * Pow(call.backoff_factor,
            Cardinality({j \in 1..(i - 1) : ~RateLimited(call.outcomes[j])}))

\* C11: an attempt that met HTTP 429 with Retry-After: 5 and was followed
\* by another attempt was followed first by a sleep of at least 5 seconds;
\* it did not multiply the backoff delay (a transient failure right after
\* it sleeps the delay that was in force before it); and it counted as an
\* attempt: the call made at most max_retries of them.
C11_RateLimitHonoured ==
    RetryDone =>
      \A i \in 1..(call.result.calls - 1) :
         (RateLimited(call.outcomes[i]) /\ call.outcomes[i].exc.retry_after = 5)
         => /\ Len(call.result.sleeps) >= i
            /\ call.result.sleeps[i] >= 5
            /\ call.result.calls <= call.max_retries
            /\ (Transient(call.outcomes[i + 1]) /\ i + 1 < call.result.calls)
                 => call.result.sleeps[i + 1] = DelayAt(i)

\* C12: an attempt that failed with a failure that is not transient, not
\* HTTP 429 and not HTTP 5xx was the last attempt of the call, no sleep
\* followed it, and the call raised that failure; when it was the first
\* attempt, func was invoked exactly once.
C12_NonRetryableOnce ==
    RetryDone =>
      \A i \in 1..call.result.calls :
         NonRetryable(call.outcomes[i])
         => /\ call.result.calls = i
            /\ Len(call.result.sleeps) < i
            /\ ~call.result.ok
            /\ call.result.exc = call.outcomes[i].exc

AllTransient == \A i \in 1..call.max_retries : Transient(call.outcomes[i])

\* C13: when every attempt fails with a transient failure, func is invoked
\* exactly max_retries times, there are max_retries - 1 sleeps, the k-th of
\* initial_delay * backoff_factor^(k-1) seconds (so none after the last
\* attempt), and the call raises the exception of the last attempt.
C13_TransientExhausts ==
    (RetryDone /\ AllTransient)
    => /\ call.result.calls = call.max_retries
       /\ Len(call.result.sleeps) = call.max_retries - 1
       /\ \A k \in 1..Len(call.result.sleeps) :
             call.result.sleeps[k] = call.initial_delay * Pow(call.backoff_factor, k - 1)
       /\ ~call.result.ok
       /\ call.result.exc = call.outcomes[call.max_retries].exc

\* C13 witness: three attempts failed, the last unlike the one before it,
\* with sleeps of 2 and 6 seconds in between.
C13_Witness ==
    /\ RetryDone
    /\ AllTransient
    /\ call.max_retries = 3
    /\ call.outcomes[2] # call.outcomes[3]
    /\ call.result.sleeps = <<2, 6>>
    /\ call.result.exc = call.outcomes[3].exc

(***************************************************************************)
(* Properties of _find and find_track, on a call that has returned.        *)
(***************************************************************************)
\* C14: an attempt of track resolution reads the playcount of the exact
\* handle first; it issues the search only as its second request and only
\* when that read failed, and reads candidates only after the search; when
\* the exact lookup succeeds it is the only request.
C14_ExactBeforeFuzzy ==
    FindDone =>
      /\ Len(call.result.requests) >= 1
      /\ call.result.requests[1] = Read(0)
      /\ \A j \in 1..Len(call.result.requests) :
            /\ call.result.requests[j] = Search => (j = 2 /\ ~call.env.exact.ok)
            /\ call.result.requests[j].rank >= 1
                 => (j > 2 /\ call.result.requests[2] = Search)
      /\ call.env.exact.ok => call.result.requests = <<Read(0)>>

\* C14 witness: the exact lookup failed, then the search was issued and a
\* candidate was read and returned.
C14_Witness ==
    /\ FindDone
    /\ ~call.env.exact.ok
    /\ Len(call.result.requests) = 3
    /\ call.result.requests[2] = Search
    /\ call.result.ok
    /\ call.result.value = Track(call.result.requests[3].rank)

\* A candidate that clears both scores and whose playcount is readable.
Accepts(c, threshold) ==
    c.artist_val >= threshold /\ c.title_val >= threshold /\ c.read.ok

\* The first such candidate among the top 10, or NotFound.
FirstAccepted(results, threshold) ==
    IF \E i \in 1..Min(TopResults, Len(results)) : Accepts(results[i], threshold)
    THEN Track(CHOOSE i \in 1..Min(TopResults, Len(results)) :
                  /\ Accepts(results[i], threshold)
                  /\ \A j \in 1..(i - 1) : ~Accepts(results[j], threshold))
    ELSE NoTrack

\* The service's error reply, the failure _find recovers from.
ServiceError(o) == ~o.ok /\ o.exc.cls = "WSError"

\* C15 as claimed: when the exact lookup fails (with the service's error
\* reply, so that the search is issued) and the search answers, resolution
\* returns the first accepted candidate of the top 10, skipping every
\* candidate that fails a score or whose playcount read fails, and
\* NotFound if there is none.
C15_FirstAcceptedReturned ==
    (FindTrackDone /\ ServiceError(call.script[1].exact)
        /\ call.script[1].search.ok)
    => /\ call.result.ok
       /\ call.result.value = FirstAccepted(call.script[1].results, call.threshold)

\* No candidate examined up to the first accepted one clears both scores
\* and fails its playcount read other than by the service's error reply.
ReadsRecoverable(results, threshold) ==
    \A i \in 1..Min(TopResults, Len(results)) :
        (/\ results[i].artist_val >= threshold
         /\ results[i].title_val >= threshold
         /\ ~results[i].read.ok
         /\ \A j \in 1..(i - 1) : ~Accepts(results[j], threshold))
        => ServiceError(results[i].read)

\* C15 amended: when the exact lookup fails with the service's error reply
\* and the search answers, an attempt returns the first accepted candidate
\* of the top 10 or NotFound, skipping every candidate that fails a score
\* or whose playcount read fails with the service's error reply; a read
\* that fails any other way ends the attempt with that exception, no later
\* candidate is read, and resolution returns NotFound.
C15_FirstReadableReturned ==
    /\ (FindDone /\ ServiceError(call.env.exact) /\ call.env.search.ok)
         => IF ReadsRecoverable(call.env.results, call.threshold)
            THEN /\ call.result.ok
                 /\ call.result.value = FirstAccepted(call.env.results, call.threshold)
            ELSE /\ ~call.result.ok
                 /\ ~ServiceError(call.result)
                 /\ ~call.env.results[call.result.requests[
                         Len(call.result.requests)].rank].read.ok
    /\ (FindTrackDone /\ ServiceError(call.script[1].exact)
            /\ call.script[1].search.ok)
         => /\ call.result.ok
            /\ call.result.value =
                 IF ReadsRecoverable(call.script[1].results, call.threshold)
                 THEN FirstAccepted(call.script[1].results, call.threshold)
                 ELSE NoTrack

\* C15 witness: the first candidate failed the title score (92 and 40
\* against 85), the second failed its playcount read, the third was
\* returned.
C15_Witness ==
    /\ FindDone
    /\ ServiceError(call.env.exact)
    /\ call.env.search.ok
    /\ Len(call.env.results) = 3
    /\ call.env.results[1] = Rejected
    /\ call.env.results[2] = Candidate(90, 95, Raised(WSError))
    /\ call.result.ok
    /\ call.result.value = Track(3)

(***************************************************************************)
(* Properties of the cache over a run, against the ledger.                 *)
(***************************************************************************)
\* C16: for a key whose first lookup returned the remote playcount R and
\* for which N emissions have returned since, every lookup returns exactly
\* R + N: the dict says so in every state, and so does the value a later
\* iteration's lookup hands to main, failed emissions in between or not.
C16_EffectivePlaycount ==
    /\ [](\A k \in DOMAIN ledger :
             ledger[k].remote # None
             => /\ k \in DOMAIN LASTFM_PLAYCOUNTS
                /\ lookup_value(LASTFM_PLAYCOUNTS, k)
                     = Some(ledger[k].remote[1] + ledger[k].emitted))
    /\ [][(Drew /\ last'.lookup = "hit" /\ last'.key \in DOMAIN ledger
              /\ ledger[last'.key].remote # None)
            => last'.lf_count
                 = Some(ledger[last'.key].remote[1] + ledger[last'.key].emitted)]_vars

\* C16 witness: remote 7; with two emissions returned and one failed on
\* the way, the lookup of the next draw returned 9, short of the local 10,
\* and a third emission followed.
C16_Witness ==
    /\ failed
    /\ last.lookup = "hit"
    /\ last.key \in DOMAIN ledger
    /\ ledger[last.key].remote = Some(Scenario.remote)
    /\ ledger[last.key].emitted = 3
    /\ last.lf_count = Some(9)
    /\ last.nd_count = Scenario.local
    /\ last.branch = "scrobble"

\* C17: every key of the dict was looked up in the service exactly once,
\* by the iteration that created its entry, and an iteration that draws a
\* key of the dict does not resolve it; an entry is never removed, {} stays
\* {}, a playcount stays what it was, and scrobbled_this_run_count changes
\* only by + 1, in the iteration whose emission for that key returned.
C17_EntryCreatedOnce ==
    /\ [](/\ DOMAIN ledger = DOMAIN LASTFM_PLAYCOUNTS
          /\ \A k \in DOMAIN ledger : ledger[k].lookups = 1)
    /\ [][/\ \A k \in DOMAIN LASTFM_PLAYCOUNTS :
              /\ k \in DOMAIN LASTFM_PLAYCOUNTS'
              /\ HasData(LASTFM_PLAYCOUNTS'[k]) = HasData(LASTFM_PLAYCOUNTS[k])
              /\ \/ LASTFM_PLAYCOUNTS'[k] = LASTFM_PLAYCOUNTS[k]
                 \/ /\ HasData(LASTFM_PLAYCOUNTS[k])
                    /\ LASTFM_PLAYCOUNTS'[k] =
                         [LASTFM_PLAYCOUNTS[k] EXCEPT !.scrobbled_this_run_count = @ + 1]
                    /\ last'.branch = "scrobble"
                    /\ last'.key = k
          /\ \A k \in DOMAIN LASTFM_PLAYCOUNTS' \ DOMAIN LASTFM_PLAYCOUNTS :
              /\ k = last'.key
              /\ last'.lookup # "hit"
              /\ ScrobbledThisRun(LASTFM_PLAYCOUNTS', k)
                   = IF last'.branch = "scrobble" THEN 1 ELSE 0
          /\ (Drew /\ last'.key \in DOMAIN LASTFM_PLAYCOUNTS)
               => last'.lookup = "hit"]_vars

\* C17 witness: a key stored as {} when its resolution ran out of retries
\* on the service's error reply was drawn again, by a second record, and
\* not resolved again.
C17_Witness ==
    /\ last.lookup = "hit"
    /\ last.branch = "skip"
    /\ last.key \in DOMAIN ledger
    /\ ledger[last.key].cause = "WSError"
    /\ ledger[last.key].lookups = 1
    /\ LASTFM_PLAYCOUNTS[last.key] = EmptyEntry
    /\ Len(tracks0) = 2
    /\ Len(tracks) = 0

(***************************************************************************)
(* Termination of the loop.                                                *)
(***************************************************************************)
Terminal == state \in {"Done", "LimitReached"}

\* The latest iteration's emission for key k failed, or returned.
FailedFor(k) == last.branch = "fail" /\ last.key = k
EmittedFor(k) == last.branch = "scrobble" /\ last.key = k

\* The iteration `it` is a failed emission for the key that failed last, and
\* it leaves the pool, the dict, total_scrobbled and the loop's state alone.
FailsUnchanged(it) ==
    /\ it.branch = "fail"
    /\ it.key = last.key
    /\ it.state = "Running"
    /\ it.tracks = tracks
    /\ it.cache = LASTFM_PLAYCOUNTS
    /\ it.total = total_scrobbled

\* Some draw and some answers of the service make the next iteration such.
CanFailAgain ==
    /\ Running
    /\ \E idx \in 0..Max(Len(tracks) - 1, 0) :
         \E f \in Answers(idx, FindScripts), r \in Answers(idx, Reads), e \in EmitFails :
            FailsUnchanged(main_iteration(tracks, LASTFM_PLAYCOUNTS, total_scrobbled,
                                          config, dry_run, max_scrobbles,
                                          Input(idx, f, r, e)))

\* C18: if for no key the emissions fail for ever (a key whose emission
\* fails again and again has one that returns again and again), the loop
\* eventually reaches Done or LimitReached; and after a failed emission the
\* loop is Running and an iteration is possible that draws the same key,
\* fails again and leaves the pool, the dict and total_scrobbled as they
\* are, so that without the assumption the loop can stay Running for ever.
C18_TerminatesUnlessFailing ==
    /\ (\A k \in Keys : []<>FailedFor(k) => []<>EmittedFor(k)) => <>Terminal
    /\ [](last.branch = "fail" => CanFailAgain)

C18_Witness ==
    /\ state = "Done"
    /\ failed
    /\ Len(tracks0) = 2
    /\ \E k \in DOMAIN ledger : ledger[k].emitted >= 1

\* The record is ineligible under the dict: its key has been looked up and
\* the if/elif chain of main decides against a scrobble (no remote data,
\* effective count >= local count, per-run cap reached, lifetime cap reached).
Ineligible(rec, cache) ==
    /\ rec.key \in DOMAIN cache
    /\ ~can_scrobble(cache, rec.key, rec.playcount, lookup_value(cache, rec.key), config)

\* C19: a record of the initial pool that is ineligible under the dict stays
\* ineligible in every later state of the run; the record a step removes
\* from the pool is ineligible when it is removed; and when the loop is
\* Done, every record of the initial pool is ineligible.
C19_IneligibilityStable ==
    /\ [][\A i \in 1..Len(tracks0) :
            Ineligible(tracks0[i], LASTFM_PLAYCOUNTS)
                => Ineligible(tracks0[i], LASTFM_PLAYCOUNTS')]_vars
    /\ [][(Drew /\ tracks' # tracks)
            => Ineligible([key |-> last'.key, playcount |-> last'.nd_count],
                          LASTFM_PLAYCOUNTS')]_vars
    /\ [](state = "Done"
            => \A i \in 1..Len(tracks0) : Ineligible(tracks0[i], LASTFM_PLAYCOUNTS))

\* Two records of one key: the first was removed while the second was still
\* eligible and was scrobbled, and the loop has ended in Done.
C19_Witness ==
    /\ state = "Done"
    /\ Len(tracks0) = 2
    /\ tracks0[1].key = tracks0[2].key
    /\ tracks0[1].playcount < tracks0[2].playcount
    /\ total_scrobbled = 1
    /\ ledger[tracks0[1].key].remote = Some(1)

\* The sum of scrobbled_this_run_count over the keys S of the dict.
RECURSIVE SumThisRun(_, _)
SumThisRun(cache, S) ==
    IF S = {} THEN 0
    ELSE ScrobbledThisRun(cache, CHOOSE k \in S : TRUE)
            + SumThisRun(cache, S \ {CHOOSE k \in S : TRUE})

ScrobbledInAll(cache) == SumThisRun(cache, DOMAIN cache)

\* C20: in every state total_scrobbled is the sum of scrobbled_this_run_count
\* over the keys of the dict; and every step of the loop either raises both
\* by exactly one, which is a scrobble_once that returned, in a live run or
\* in a dry run, or leaves both as they are, so total_scrobbled never
\* decreases.
C20_TotalIsSumOfCounts ==
    /\ [](total_scrobbled = ScrobbledInAll(LASTFM_PLAYCOUNTS))
    /\ [][IF last'.branch = "scrobble" /\ Drew
          THEN /\ total_scrobbled' = total_scrobbled + 1
               /\ ScrobbledInAll(LASTFM_PLAYCOUNTS')
                    = ScrobbledInAll(LASTFM_PLAYCOUNTS) + 1
          ELSE /\ total_scrobbled' = total_scrobbled
               /\ ScrobbledInAll(LASTFM_PLAYCOUNTS')
                    = ScrobbledInAll(LASTFM_PLAYCOUNTS)]_vars

\* A dry run: one scrobble has been counted for each of two keys, and the
\* latest iteration removed a record.
C20_Witness ==
    /\ dry_run
    /\ total_scrobbled = 2
    /\ DOMAIN LASTFM_PLAYCOUNTS = Keys
    /\ \A k \in Keys : ScrobbledThisRun(LASTFM_PLAYCOUNTS, k) = 1
    /\ last.branch = "skip"
====
